---- MODULE Spec2Model ----
(***************************************************************************)
(* The csv-connector server methods of                                     *)
(* imports/plugins/included/csv-connector/server/methods.js: the job item  *)
(* and mapping template collections, the credential settings of the        *)
(* Packages collection, and the Meteor methods that act on them.           *)
(*                                                                         *)
(* JavaScript values are encoded as strings.  The values undefined, null,  *)
(* true and false are the strings Undefined, Null, JSTrue and JSFalse; the *)
(* members of NumberLits are numbers; every other string is a string.  A   *)
(* method argument is a record with a field "type" (its JavaScript type)   *)
(* and, for an object, one field per property.                             *)
(***************************************************************************)
EXTENDS Integers, FiniteSets, Sequences, TLC

VARIABLES
    jobItems,   \* JobItems collection: _id -> document
    mappings,   \* Mappings collection: _id -> document
    packages,   \* Packages collection: name -> settings
    clock,      \* logical time: one tick per JobItems.insert (new Date(), generated _id)
    fibers,     \* removeJobItem invocations in flight (interleaved runs)
    last        \* the last step: method, arguments, context, outcome, state before

vars == <<jobItems, mappings, packages, clock, fibers, last>>

----------------------------------------------------------------------------
\* Bounds

\* job items inserted in one run
MaxJobs == 3
\* mapping templates inserted in one run
MaxMappings == 2
\* removeJobItem invocations in flight at once
MaxFibers == 2

----------------------------------------------------------------------------
\* JavaScript values

Undefined == "undefined"
Null == "null"
JSTrue == "true"
JSFalse == "false"
NumberLits == {"0", "1", "22"}

\* ToBoolean of the encoded values (the condition of an if, the operands of &&)
Truthy(v) == v \notin {Undefined, Null, JSFalse, ""}

\* check(v, String)
IsString(v) == v \notin {Undefined, Null, JSTrue, JSFalse} \cup NumberLits

\* check(v, Number)
IsNumber(v) == v \in NumberLits

\* check(v, Object)
IsObject(arg) == arg.type = "object"

\* property read: values.p is undefined when values has no property p
Get(obj, p) == IF p \in DOMAIN obj THEN obj[p] ELSE Undefined

\* an object without the properties whose value is undefined
DropUndefined(obj) == [p \in {q \in DOMAIN obj : obj[q] # Undefined} |-> obj[p]]

\* EJSON.parse(EJSON.stringify(obj)) of an object of strings and numbers:
\* a copy, in which a property whose value is undefined is left out
EJSONClone(obj) == DropUndefined(obj)

EmptyCollection == [id \in {} |-> Undefined]

\* _id of the n-th document a collection receives (fresh, never reused)
JobItemId(n) == "j" \o ToString(n)
MappingDocId(n) == "m" \o ToString(n)

\* collection.insert(doc) with a generated _id
Insert(coll, id, doc) ==
    [k \in DOMAIN coll \cup {id} |-> IF k = id THEN doc ELSE coll[k]]

\* a removal with the empty selector
Remove_All(coll, id) == [k \in {} |-> Undefined]

\* collection.remove({ _id: id }): removes the matching document, if any
Remove(coll, id) == [k \in DOMAIN coll \ {id} |-> coll[k]]

----------------------------------------------------------------------------
\* Outcomes of a method invocation

Ok(value) == [kind |-> "ok", value |-> value, error |-> "", reason |-> ""]

\* throw new Meteor.Error(error, reason)
MeteorError(error, reason) ==
    [kind |-> "error", value |-> Undefined, error |-> error, reason |-> reason]

\* a failed check(): Match.Error
MatchError == MeteorError("Match.Error", "Match failed")

\* a runtime TypeError thrown by the method body
TypeError == MeteorError("TypeError", "Cannot destructure property of undefined")

AccessDenied == MeteorError("access-denied", "Access Denied")

InProgressMessage == "Job item is in progress and can't be deleted."

NoCall ==
    [op |-> "none", arg |-> [type |-> Undefined], shopId |-> Undefined,
     userId |-> Undefined, hasCore |-> FALSE, outcome |-> Ok(Undefined),
     preJobItems |-> EmptyCollection, preMappings |-> EmptyCollection,
     prePackages |-> EmptyCollection,
     storeRead |-> FALSE, storeWrite |-> FALSE, clientCall |-> FALSE]

\* the record of an invocation of a job method (no credential store, no client)
JobCall(op, arg, shopId, userId, outcome) ==
    [op |-> op, arg |-> arg, shopId |-> shopId, userId |-> userId,
     hasCore |-> FALSE, outcome |-> outcome,
     preJobItems |-> jobItems, preMappings |-> mappings, prePackages |-> packages,
     storeRead |-> FALSE, storeWrite |-> FALSE, clientCall |-> FALSE]

----------------------------------------------------------------------------
\* csvConnector/saveJobItem

\* a job item that takes its mapping from the template it references
JobItemDoc_NoSnapshot(values, shopId, userId, now) ==
    [collection |-> Get(values, "collection"),
     fileSource |-> Get(values, "fileSource"),
     hasHeader  |-> Get(values, "hasHeader"),
     jobSubType |-> Get(values, "jobSubType"),
     jobType    |-> Get(values, "jobType"),
     mapping    |-> Get(values, "mappingId"),
     mappingId  |-> Get(values, "mappingId"),
     name       |-> Get(values, "name"),
     shopId     |-> shopId,
     status     |-> "pending",
     uploadedAt |-> now,
     userId     |-> userId]

\* the document of JobItems.insert (lines 170-183)
JobItemDoc(values, shopId, userId, now) ==
    [collection |-> Get(values, "collection"),
     fileSource |-> Get(values, "fileSource"),
     hasHeader  |-> Get(values, "hasHeader"),
     jobSubType |-> Get(values, "jobSubType"),
     jobType    |-> Get(values, "jobType"),
     mapping    |-> Get(values, "mappingByUser"),
     mappingId  |-> Get(values, "mappingId"),
     name       |-> Get(values, "name"),
     shopId     |-> shopId,
     status     |-> "pending",
     uploadedAt |-> now,
     userId     |-> userId]

\* the condition without the flag
ShouldInsertMapping_NoFlag(values) ==
    \/ Get(values, "mappingId") = "create"
    \/ Get(values, "saveMappingAction") = "create"

\* the condition of line 185
ShouldInsertMapping(values) ==
    \/ Get(values, "mappingId") = "create" /\ Truthy(Get(values, "shouldSaveToNewMapping"))
    \/ Get(values, "mappingId") # "create" /\ Get(values, "saveMappingAction") = "create"

\* the condition of line 192
ShouldUpdateMapping(values) ==
    Get(values, "mappingId") # "create" /\ Get(values, "saveMappingAction") = "update"

\* a template named after the job
MappingDoc_JobName(values, shopId) ==
    [shopId     |-> shopId,
     name       |-> Get(values, "name"),
     collection |-> Get(values, "collection"),
     mapping    |-> Get(values, "mappingByUser")]

\* the document of Mappings.insert (lines 186-191)
MappingDoc(values, shopId) ==
    [shopId     |-> shopId,
     name       |-> Get(values, "newMappingName"),
     collection |-> Get(values, "collection"),
     mapping    |-> Get(values, "mappingByUser")]

\* an update of every document
MappingsUpdate_Multi(coll, id, mapping) ==
    [k \in DOMAIN coll |-> [coll[k] EXCEPT !.mapping = mapping]]

\* Mappings.update({ _id: id }, { $set: { mapping } }): no document, no change
MappingsUpdate(coll, id, mapping) ==
    [k \in DOMAIN coll |-> IF k = id THEN [coll[k] EXCEPT !.mapping = mapping] ELSE coll[k]]

\* the mapping persistence of lines 185-194
MappingsAfterSave(coll, values, shopId) ==
    IF ShouldInsertMapping(values)
    THEN Insert(coll, MappingDocId(Cardinality(DOMAIN coll) + 1), MappingDoc(values, shopId))
    ELSE IF ShouldUpdateMapping(values)
    THEN MappingsUpdate(coll, Get(values, "mappingId"), Get(values, "mappingByUser"))
    ELSE coll

\* the method (lines 153-197); shopId is Reaction.getShopId(), userId is Meteor.userId()
SaveJobItem(values, shopId, userId) ==
    IF ~IsObject(values)
    THEN /\ last' = JobCall("saveJobItem", values, shopId, userId, MatchError)
         /\ UNCHANGED <<jobItems, mappings, packages, clock, fibers>>
    ELSE /\ clock < MaxJobs
         /\ Cardinality(DOMAIN MappingsAfterSave(mappings, values, shopId)) <= MaxMappings
         /\ clock' = clock + 1
         /\ jobItems' = Insert(jobItems, JobItemId(clock'),
                               JobItemDoc(values, shopId, userId, clock'))
         /\ mappings' = MappingsAfterSave(mappings, values, shopId)
         /\ last' = JobCall("saveJobItem", values, shopId, userId, Ok(JobItemId(clock')))
         /\ UNCHANGED <<packages, fibers>>

----------------------------------------------------------------------------
\* csvConnector/removeJobItem

\* the test applied to the wrong status
IsInProgress_Pending(status) == status = "pending"

\* the test of line 210
IsInProgress(status) == status = "inProgress"

\* the checks without the test of the status
RemoveGate_NoStatus(coll, jobItemId) ==
    IF jobItemId.type # "string"
    THEN MatchError
    ELSE IF jobItemId.val \notin DOMAIN coll
    THEN TypeError
    ELSE Ok(Undefined)

\* lines 207-212: the checks that precede the removal; Ok when they pass
RemoveGate(coll, jobItemId) ==
    IF jobItemId.type # "string"
    THEN MatchError
    ELSE IF jobItemId.val \notin DOMAIN coll
    THEN TypeError          \* findOne returns undefined; line 209 destructures it
    ELSE IF IsInProgress(coll[jobItemId.val].status)
    THEN MeteorError("invalid", InProgressMessage)
    ELSE Ok(Undefined)

\* the method (lines 206-218), run without interruption
RemoveJobItem(jobItemId) ==
    LET call(outcome) == JobCall("removeJobItem", jobItemId, Undefined, Undefined, outcome) IN
    IF RemoveGate(jobItems, jobItemId).kind = "error"
    THEN /\ last' = call(RemoveGate(jobItems, jobItemId))
         /\ UNCHANGED <<jobItems, mappings, packages, clock, fibers>>
    ELSE /\ jobItems' = Remove(jobItems, jobItemId.val)
         /\ last' = call(Ok(JSTrue))
         /\ UNCHANGED <<mappings, packages, clock, fibers>>

\* An invocation that other work interleaves with: JobItems.findOne and
\* JobItems.remove are two operations on the collection.

IdleFiber == [pc |-> "idle", jobItemId |-> [type |-> Undefined], status |-> Undefined]

\* lines 207-212: the read of the status and the test of it
RemoveFindOne(f, jobItemId) ==
    /\ fibers[f].pc = "idle"
    /\ IF RemoveGate(jobItems, jobItemId).kind = "error"
       THEN /\ last' = JobCall("removeJobItem", jobItemId, Undefined, Undefined,
                               RemoveGate(jobItems, jobItemId))
            /\ UNCHANGED fibers
       ELSE /\ fibers' = [fibers EXCEPT ![f] = [pc |-> "remove", jobItemId |-> jobItemId,
                                                status |-> jobItems[jobItemId.val].status]]
            /\ last' = JobCall("findOne", jobItemId, Undefined, Undefined,
                               Ok(jobItems[jobItemId.val].status))
    /\ UNCHANGED <<jobItems, mappings, packages, clock>>

\* lines 213-217: the removal and the return
RemoveDelete(f) ==
    /\ fibers[f].pc = "remove"
    /\ jobItems' = Remove(jobItems, fibers[f].jobItemId.val)
    /\ fibers' = [fibers EXCEPT ![f] = IdleFiber]
    /\ last' = JobCall("removeJobItem", fibers[f].jobItemId, Undefined, Undefined, Ok(JSTrue))
    /\ UNCHANGED <<mappings, packages, clock>>

\* saveJobItem as other work interleaves with it: JobItems.insert and the
\* operation on Mappings are two operations on the collections.

\* templates that the invocations in flight are about to insert
PendingInserts ==
    Cardinality({g \in DOMAIN fibers :
                    fibers[g].pc = "mapping" /\ ShouldInsertMapping(fibers[g].values)})

\* lines 154-183: the check of the argument and JobItems.insert
SaveInsert(f, values, shopId, userId) ==
    /\ fibers[f].pc = "idle"
    /\ IF ~IsObject(values)
       THEN /\ last' = JobCall("saveJobItem", values, shopId, userId, MatchError)
            /\ UNCHANGED <<jobItems, clock, fibers>>
       ELSE /\ clock < MaxJobs
            /\ Cardinality(DOMAIN mappings) + PendingInserts
                   + (IF ShouldInsertMapping(values) THEN 1 ELSE 0) <= MaxMappings
            /\ clock' = clock + 1
            /\ jobItems' = Insert(jobItems, JobItemId(clock'),
                                  JobItemDoc(values, shopId, userId, clock'))
            /\ fibers' = [fibers EXCEPT ![f] =
                              [pc |-> "mapping",
                               jobItemId |-> [type |-> "string", val |-> JobItemId(clock')],
                               status |-> Undefined, values |-> values,
                               shopId |-> shopId, userId |-> userId]]
            /\ last' = JobCall("JobItems.insert", values, shopId, userId, Ok(JobItemId(clock')))
    /\ UNCHANGED <<mappings, packages>>

\* lines 185-196: the mapping persistence and the return
SaveMapping(f) ==
    /\ fibers[f].pc = "mapping"
    /\ mappings' = MappingsAfterSave(mappings, fibers[f].values, fibers[f].shopId)
    /\ fibers' = [fibers EXCEPT ![f] = IdleFiber]
    /\ last' = JobCall("saveJobItem", fibers[f].values, fibers[f].shopId, fibers[f].userId,
                       Ok(fibers[f].jobItemId.val))
    /\ UNCHANGED <<jobItems, packages, clock>>

----------------------------------------------------------------------------
\* The external execution pipeline: it owns the status of a job item

PipelineNext(status) ==
    CASE status = "pending" -> {"inProgress"}
      [] status = "inProgress" -> {"completed", "failed"}
      [] OTHER -> {}

PipelineStep(id) ==
    /\ id \in DOMAIN jobItems
    /\ \E s \in PipelineNext(jobItems[id].status) :
           /\ jobItems' = [jobItems EXCEPT ![id].status = s]
           /\ last' = JobCall("pipeline", [type |-> "string", val |-> id],
                              Undefined, Undefined, Ok(s))
    /\ UNCHANGED <<mappings, packages, clock, fibers>>

----------------------------------------------------------------------------
\* Credential methods

S3Package == "connector-settings-aws-s3"
SFTPPackage == "connector-settings-sftp"

\* the record of an invocation of a credential method
CredCall(op, arg, hasCore, outcome, read, write, client) ==
    [op |-> op, arg |-> arg, shopId |-> Undefined, userId |-> Undefined,
     hasCore |-> hasCore, outcome |-> outcome,
     preJobItems |-> jobItems, preMappings |-> mappings, prePackages |-> packages,
     storeRead |-> read, storeWrite |-> write, clientCall |-> client]

\* no permission check
Denied_Never(hasCore) == FALSE

\* !Reaction.hasPermission("core") (lines 26, 50, 67, 100, 130)
Denied(hasCore) == ~hasCore

\* the checks of lines 20-23
S3ValuesOk(values) ==
    /\ IsObject(values)
    /\ IsString(Get(values, "accessKey"))
    /\ IsString(Get(values, "secretAccessKey"))
    /\ IsString(Get(values, "bucket"))

\* the checks of lines 43-47
SFTPValuesOk(values) ==
    /\ IsObject(values)
    /\ IsString(Get(values, "ipAddress"))
    /\ IsNumber(Get(values, "port"))
    /\ IsString(Get(values, "username"))
    /\ IsString(Get(values, "password"))

\* Packages.update({ name }, { $set: { settings } })
PackagesUpdate(coll, name, settings) ==
    [k \in DOMAIN coll |-> IF k = name THEN [coll[k] EXCEPT !.settings = settings] ELSE coll[k]]

\* its result: the number of documents it changed
PackagesUpdated(coll, name) == IF name \in DOMAIN coll THEN "1" ELSE "0"

\* the body shared by updateS3Settings (lines 19-33) and updateSFTPSettings (lines 42-57)
UpdateSettings(op, name, valuesOk, values, hasCore) ==
    IF ~valuesOk
    THEN /\ last' = CredCall(op, values, hasCore, MatchError, FALSE, FALSE, FALSE)
         /\ UNCHANGED <<jobItems, mappings, packages, clock, fibers>>
    ELSE IF Denied(hasCore)
    THEN /\ last' = CredCall(op, values, hasCore, AccessDenied, FALSE, FALSE, FALSE)
         /\ UNCHANGED <<jobItems, mappings, packages, clock, fibers>>
    ELSE /\ packages' = PackagesUpdate(packages, name, EJSONClone(values))
         /\ last' = CredCall(op, values, hasCore, Ok(PackagesUpdated(packages, name)),
                             FALSE, TRUE, FALSE)
         /\ UNCHANGED <<jobItems, mappings, clock, fibers>>

UpdateS3Settings(values, hasCore) ==
    UpdateSettings("updateS3Settings", S3Package, S3ValuesOk(values), values, hasCore)

UpdateSFTPSettings(values, hasCore) ==
    UpdateSettings("updateSFTPSettings", SFTPPackage, SFTPValuesOk(values), values, hasCore)

\* reject(error) of the client's callback
Rejected(code) == MeteorError(code, "rejected by the remote service")

\* the callback of S3Config.upload (lines 81-88)
UploadOutcome(result) == IF result = "result" THEN Ok(JSTrue) ELSE Rejected(result)

\* the callback of S3Config.getObject (lines 111-118)
GetObjectOutcome(result) ==
    IF result = "result" \/ result = "NoSuchKey" THEN Ok(JSTrue) ELSE Rejected(result)

\* connect().then(...).catch(...) (lines 137-142)
ConnectOutcome(result) == IF result = "result" THEN Ok(JSTrue) ELSE Rejected(result)

\* the body shared by s3TestForExport (lines 65-90), s3TestForImport (lines 98-120)
\* and sftpTestForImportAndExport (lines 128-144); clientOutcome is what the
\* client call ends with
TestSettings(op, name, hasCore, clientOutcome) ==
    /\ UNCHANGED <<jobItems, mappings, packages, clock, fibers>>
    /\ IF Denied(hasCore)
       THEN last' = CredCall(op, [type |-> Undefined], hasCore, AccessDenied, FALSE, FALSE, FALSE)
       ELSE IF name \notin DOMAIN packages
       THEN \* pkg || {} has no settings to destructure
            last' = CredCall(op, [type |-> Undefined], hasCore, TypeError, TRUE, FALSE, FALSE)
       ELSE last' = CredCall(op, [type |-> Undefined], hasCore, clientOutcome, TRUE, FALSE, TRUE)

S3TestForExport(hasCore, result) ==
    TestSettings("s3TestForExport", S3Package, hasCore, UploadOutcome(result))

S3TestForImport(hasCore, result) ==
    TestSettings("s3TestForImport", S3Package, hasCore, GetObjectOutcome(result))

SftpTestForImportAndExport(hasCore, result) ==
    TestSettings("sftpTestForImportAndExport", SFTPPackage, hasCore, ConnectOutcome(result))

CredentialOps ==
    {"updateS3Settings", "updateSFTPSettings", "s3TestForExport", "s3TestForImport",
     "sftpTestForImportAndExport"}

----------------------------------------------------------------------------
\* Inputs

SaveActions == {"create", "update", "none", Undefined}
SaveFlags == {JSTrue, JSFalse, Undefined}
RequiredFields == {"collection", "mappingByUser", "jobType", "name"}

Without(obj, p) == [q \in DOMAIN obj \ {p} |-> obj[q]]

Values(mapping, mappingId, action, flag) ==
    DropUndefined(
    [type |-> "object", collection |-> "Products", fileSource |-> "manual",
     hasHeader |-> JSTrue, jobSubType |-> "create", jobType |-> "import",
     mappingByUser |-> mapping, mappingId |-> mappingId, name |-> "job",
     newMappingName |-> "template", saveMappingAction |-> action,
     shouldSaveToNewMapping |-> flag])

\* the rows of the decision table: no mapping selected, the first template
\* selected, a later template selected
DecisionValues ==
    {Values("SKU", id, a, f) : id \in {"create", MappingDocId(1)}, a \in SaveActions, f \in SaveFlags}
    \cup {Values("SKU2", MappingDocId(n), "update", Undefined) : n \in 1..MaxMappings}
    \cup {Values("SKU2", "create", Undefined, JSTrue), Values("SKU2", MappingDocId(1), "create", Undefined)}

\* a required property missing, or no object at all
MalformedValues ==
    {Without(Values("SKU", "create", Undefined, JSTrue), p) : p \in RequiredFields}
    \cup {[type |-> "string"]}

\* arguments, Reaction.getShopId(), Meteor.userId()
SaveInputs ==
    {<<v, "shopA", "user1">> : v \in DecisionValues \cup MalformedValues}
    \cup {<<Values("SKU2", "create", Undefined, JSTrue), "shopB", "user1">>,
          <<Values("SKU2", MappingDocId(1), "update", Undefined), "shopB", "user1">>,
          <<Values("SKU", "create", Undefined, JSTrue), Undefined, "user1">>,
          <<Values("SKU", "create", Undefined, JSTrue), "shopA", Null>>}

PlainSaveInputs == {<<Values("SKU", "create", Undefined, Undefined), "shopA", "user1">>}

S3Values(accessKey, secretAccessKey, bucket) ==
    DropUndefined([type |-> "object", accessKey |-> accessKey,
                   secretAccessKey |-> secretAccessKey, bucket |-> bucket])

SFTPValues(ipAddress, port, username, password) ==
    DropUndefined([type |-> "object", ipAddress |-> ipAddress, port |-> port,
                   username |-> username, password |-> password])

S3Args ==
    {S3Values("AK1", "secret", "bucket"), S3Values("AK2", "secret", "bucket"),
     S3Values("AK1", "secret", Undefined), S3Values("AK1", "22", "bucket"),
     [type |-> "string"]}

SFTPArgs ==
    {SFTPValues("10.0.0.1", "22", "user", "pw"), SFTPValues("10.0.0.2", "22", "user", "pw"),
     SFTPValues("10.0.0.1", "port", "user", "pw"), SFTPValues("10.0.0.1", "22", "user", Undefined),
     [type |-> Undefined]}

ClientResults == {"result", "NoSuchKey", "Forbidden"}

\* the settings documents the plugins register
RegisteredPackages ==
    [name \in {S3Package, SFTPPackage} |-> [name |-> name, settings |-> [type |-> "object"]]]

JobIdArgs ==
    {[type |-> "string", val |-> JobItemId(n)] : n \in 1..(MaxJobs + 1)}
    \cup {[type |-> Undefined]}

----------------------------------------------------------------------------
\* Specifications: the methods run one invocation at a time

Init ==
    /\ jobItems = EmptyCollection
    /\ mappings = EmptyCollection
    /\ packages = RegisteredPackages
    /\ clock = 0
    /\ fibers = EmptyCollection
    /\ last = NoCall

SaveCall == \E in \in SaveInputs : SaveJobItem(in[1], in[2], in[3])

PlainSaveCall == \E in \in PlainSaveInputs : SaveJobItem(in[1], in[2], in[3])

RemoveCall == \E jobItemId \in JobIdArgs : RemoveJobItem(jobItemId)

Pipeline == \E id \in DOMAIN jobItems : PipelineStep(id)

\* job submissions over the whole decision table
NextSave == SaveCall

SpecSave == Init /\ [][NextSave]_vars

\* submissions, removals and the pipeline
NextRemove == PlainSaveCall \/ RemoveCall \/ Pipeline

SpecRemove == Init /\ [][NextRemove]_vars

\* the credential methods; the settings documents exist or not
InitCred ==
    /\ jobItems = EmptyCollection
    /\ mappings = EmptyCollection
    /\ packages \in {RegisteredPackages, EmptyCollection}
    /\ clock = 0
    /\ fibers = EmptyCollection
    /\ last = NoCall

UpdateS3Call == \E values \in S3Args, hasCore \in BOOLEAN : UpdateS3Settings(values, hasCore)

UpdateSFTPCall == \E values \in SFTPArgs, hasCore \in BOOLEAN : UpdateSFTPSettings(values, hasCore)

S3ExportCall == \E hasCore \in BOOLEAN, r \in ClientResults : S3TestForExport(hasCore, r)

S3ImportCall == \E hasCore \in BOOLEAN, r \in ClientResults : S3TestForImport(hasCore, r)

SftpCall == \E hasCore \in BOOLEAN, r \in ClientResults : SftpTestForImportAndExport(hasCore, r)

NextCred == UpdateS3Call \/ UpdateSFTPCall \/ S3ExportCall \/ S3ImportCall \/ SftpCall

SpecCred == InitCred /\ [][NextCred]_vars

\* removals interleaved with each other, with submissions and with the pipeline
InitRace ==
    /\ jobItems = EmptyCollection
    /\ mappings = EmptyCollection
    /\ packages = RegisteredPackages
    /\ clock = 0
    /\ fibers = [f \in 1..MaxFibers |-> IdleFiber]
    /\ last = NoCall

FindOneStep == \E f \in DOMAIN fibers, jobItemId \in JobIdArgs : RemoveFindOne(f, jobItemId)

DeleteStep == \E f \in DOMAIN fibers : RemoveDelete(f)

NextRace == PlainSaveCall \/ FindOneStep \/ DeleteStep \/ Pipeline

SpecRace == InitRace /\ [][NextRace]_vars

\* submissions interleaved with each other, with removals and with the pipeline
ConcurrentSaveInputs ==
    {<<Values("SKU", "create", Undefined, JSTrue), "shopA", "user1">>,
     <<Values("SKU", MappingDocId(1), "update", Undefined), "shopA", "user1">>,
     <<Values("SKU2", MappingDocId(1), "update", Undefined), "shopA", "user1">>}

\* a new invocation runs in the first fiber that is free
FirstIdle(f) == fibers[f].pc = "idle" /\ \A g \in DOMAIN fibers : g < f => fibers[g].pc # "idle"

SaveInsertStep ==
    \E f \in DOMAIN fibers, in \in ConcurrentSaveInputs :
        FirstIdle(f) /\ SaveInsert(f, in[1], in[2], in[3])

SaveMappingStep == \E f \in DOMAIN fibers : SaveMapping(f)

\* removals of stored job items
StoredRemoveCall ==
    \E id \in DOMAIN jobItems : RemoveJobItem([type |-> "string", val |-> id])

\* the pipeline starts a pending job item
PipelineStart ==
    \E id \in DOMAIN jobItems : jobItems[id].status = "pending" /\ PipelineStep(id)

NextConcurrent == SaveInsertStep \/ SaveMappingStep \/ StoredRemoveCall \/ PipelineStart

SpecConcurrent == InitRace /\ [][NextConcurrent]_vars

TypeOK == clock \in 0..MaxJobs

----------------------------------------------------------------------------
\* What the last step was

IsSave == last.op = "saveJobItem"

\* the last step was removeJobItem of a stored job item whose status is in statuses
IsRemoveOf(statuses) ==
    /\ last.op = "removeJobItem"
    /\ last.arg.type = "string"
    /\ last.arg.val \in DOMAIN last.preJobItems
    /\ last.preJobItems[last.arg.val].status \in statuses

\* the last step was removeJobItem of an identifier that no job item has
IsRemoveOfMissing ==
    /\ last.op = "removeJobItem"
    /\ last.arg.type = "string"
    /\ last.arg.val \notin DOMAIN last.preJobItems

\* the submission has no object, or lacks a required property
IsMalformed(values) ==
    \/ ~IsObject(values)
    \/ \E p \in RequiredFields : Get(values, p) = Undefined

\* the submission selects a stored template and asks to update it
IsUpdateCase ==
    /\ IsSave /\ IsObject(last.arg)
    /\ Get(last.arg, "mappingId") \in DOMAIN last.preMappings
    /\ Get(last.arg, "saveMappingAction") = "update"

\* the two insert rows of the decision table
IsInsertCase ==
    /\ IsSave /\ IsObject(last.arg)
    /\ \/ /\ Get(last.arg, "mappingId") = "create"
          /\ Get(last.arg, "shouldSaveToNewMapping") = JSTrue
       \/ /\ Get(last.arg, "mappingId") \in DOMAIN last.preMappings
          /\ Get(last.arg, "saveMappingAction") = "create"

\* the two rows of the decision table without mapping persistence
IsNoPersistenceCase ==
    /\ IsSave /\ IsObject(last.arg)
    /\ \/ /\ Get(last.arg, "mappingId") = "create"
          /\ Get(last.arg, "shouldSaveToNewMapping") \in {JSFalse, Undefined}
       \/ /\ Get(last.arg, "mappingId") \notin {"create", Undefined}
          /\ Get(last.arg, "saveMappingAction") \notin {"create", "update"}

\* the last step was a credential method called without the "core" permission
IsUnauthorised == last.op \in CredentialOps /\ ~last.hasCore

\* the arguments pass the type checks of the method
ArgumentsPass ==
    CASE last.op = "updateS3Settings" -> S3ValuesOk(last.arg)
      [] last.op = "updateSFTPSettings" -> SFTPValuesOk(last.arg)
      [] OTHER -> TRUE

\* no read or write of the credential store, no call of a client
NoCredentialAction ==
    /\ ~last.storeRead /\ ~last.storeWrite /\ ~last.clientCall
    /\ packages = last.prePackages

----------------------------------------------------------------------------
\* Properties

\* C1: removeJobItem of a job item whose stored status is "inProgress" fails
\* with the error "Job item is in progress and can't be deleted." and the job
\* item is still stored, unchanged, afterwards.
C1_InProgressRemovalFails ==
    IsRemoveOf({"inProgress"}) =>
        /\ last.outcome = MeteorError("invalid", InProgressMessage)
        /\ jobItems = last.preJobItems

C1_Witness ==
    /\ IsRemoveOf({"inProgress"})
    /\ last.outcome.kind = "error"
    /\ last.arg.val \in DOMAIN jobItems
    /\ Cardinality(DOMAIN jobItems) >= 2

\* C2: removeJobItem of an identifier that no stored job item has (never
\* inserted, or removed before) fails with a not-found error, a kind of its
\* own, and leaves the job items unchanged.
C2_MissingIdNotFound ==
    IsRemoveOfMissing =>
        /\ last.outcome.kind = "error"
        /\ last.outcome.error = "not-found"
        /\ jobItems = last.preJobItems

\* C3: saveJobItem of values that are malformed or lack a required property
\* fails before any persistence: job items and mappings are unchanged.
C3_MalformedSubmissionFails ==
    (IsSave /\ IsMalformed(last.arg)) =>
        /\ last.outcome.kind = "error"
        /\ jobItems = last.preJobItems
        /\ mappings = last.preMappings

\* C4: removeJobItem of a job item whose status is pending, completed or
\* failed returns true; afterwards no job item has that identifier and every
\* other job item is still stored.
C4_RemovalSucceeds ==
    IsRemoveOf({"pending", "completed", "failed"}) =>
        /\ last.outcome = Ok(JSTrue)
        /\ last.arg.val \notin DOMAIN jobItems
        /\ \A id \in DOMAIN last.preJobItems \ {last.arg.val} :
               id \in DOMAIN jobItems /\ jobItems[id] = last.preJobItems[id]

C4_Witness ==
    /\ IsRemoveOf({"failed"})
    /\ last.outcome.kind = "ok"
    /\ Cardinality(DOMAIN jobItems) >= 2

\* C5: saveJobItem with the mappingId of a stored template and
\* saveMappingAction "update" replaces the mapping of that template, keeps its
\* identifier, name, tenant and collection, inserts no template and changes no
\* other one; the new job item references that mappingId.
C5_UpdateInPlace ==
    IsUpdateCase =>
        LET id == Get(last.arg, "mappingId") IN
        /\ DOMAIN mappings = DOMAIN last.preMappings
        /\ mappings[id].mapping = Get(last.arg, "mappingByUser")
        /\ mappings[id].name = last.preMappings[id].name
        /\ mappings[id].shopId = last.preMappings[id].shopId
        /\ mappings[id].collection = last.preMappings[id].collection
        /\ \A other \in DOMAIN last.preMappings \ {id} : mappings[other] = last.preMappings[other]
        /\ last.outcome.kind = "ok"
        /\ last.outcome.value \in DOMAIN jobItems \ DOMAIN last.preJobItems
        /\ jobItems[last.outcome.value].mappingId = id

C5_Witness ==
    /\ IsUpdateCase
    /\ Cardinality(DOMAIN mappings) >= 2
    /\ last.preMappings[Get(last.arg, "mappingId")].mapping # Get(last.arg, "mappingByUser")
    /\ mappings[Get(last.arg, "mappingId")].mapping = Get(last.arg, "mappingByUser")
    /\ mappings[Get(last.arg, "mappingId")].shopId # last.shopId

\* C6: in both insert rows of the decision table saveJobItem creates exactly
\* one template, with name = newMappingName, the submitted collection and
\* mapping, the current tenant and an identifier no stored template has; the
\* stored templates, the selected one included, are unmodified.
C6_InsertsOneTemplate ==
    IsInsertCase =>
        \E new \in DOMAIN mappings \ DOMAIN last.preMappings :
            /\ DOMAIN mappings = DOMAIN last.preMappings \cup {new}
            /\ mappings[new].name = Get(last.arg, "newMappingName")
            /\ mappings[new].collection = Get(last.arg, "collection")
            /\ mappings[new].mapping = Get(last.arg, "mappingByUser")
            /\ mappings[new].shopId = last.shopId
            /\ \A old \in DOMAIN last.preMappings : mappings[old] = last.preMappings[old]

C6_Witness ==
    /\ IsInsertCase
    /\ Get(last.arg, "mappingId") \in DOMAIN last.preMappings
    /\ Get(last.arg, "shouldSaveToNewMapping") = JSFalse
    /\ Cardinality(DOMAIN mappings) = Cardinality(DOMAIN last.preMappings) + 1

\* C7: in both rows of the decision table without mapping persistence
\* saveJobItem leaves the mappings unchanged, inserts exactly one job item,
\* with status "pending" and the submitted mapping, and returns its identifier.
C7_NoMappingPersistence ==
    IsNoPersistenceCase =>
        /\ mappings = last.preMappings
        /\ last.outcome.kind = "ok"
        /\ last.outcome.value \notin DOMAIN last.preJobItems
        /\ DOMAIN jobItems = DOMAIN last.preJobItems \cup {last.outcome.value}
        /\ jobItems[last.outcome.value].status = "pending"
        /\ jobItems[last.outcome.value].mapping = Get(last.arg, "mappingByUser")
        /\ \A old \in DOMAIN last.preJobItems : jobItems[old] = last.preJobItems[old]

C7_Witness ==
    /\ IsNoPersistenceCase
    /\ Get(last.arg, "mappingId") \in DOMAIN mappings
    /\ Get(last.arg, "saveMappingAction") = "none"
    /\ Get(last.arg, "shouldSaveToNewMapping") = JSTrue
    /\ last.outcome.value \in DOMAIN jobItems

\* C8: saveJobItem fails, inserting no job item and writing no template, when
\* there is no current tenant or no current user; so every stored job item has
\* a tenant and a creator.
C8_NoContextFails ==
    /\ (IsSave /\ (last.shopId = Undefined \/ last.userId = Null)) =>
           /\ last.outcome.kind = "error"
           /\ jobItems = last.preJobItems
           /\ mappings = last.preMappings
    /\ \A id \in DOMAIN jobItems :
           jobItems[id].shopId # Undefined /\ jobItems[id].userId \notin {Undefined, Null}

\* C9 as stated: a credential method called without the "core" permission
\* fails with access-denied, whatever its arguments, before any action.
C9_DeniedForAnyArguments ==
    IsUnauthorised => (last.outcome = AccessDenied /\ NoCredentialAction)

\* C9: a credential method called without the "core" permission fails before
\* any action (no read or write of the credential store, no client call): with
\* access-denied when its arguments pass the type checks of the method, with
\* the error of the failed check when they do not.
C9_DeniedBeforeAnyAction ==
    IsUnauthorised =>
        /\ last.outcome = (IF ArgumentsPass THEN AccessDenied ELSE MatchError)
        /\ NoCredentialAction

C9_Witness ==
    /\ IsUnauthorised
    /\ last.op = "updateSFTPSettings"
    /\ last.outcome = AccessDenied
    /\ SFTPPackage \in DOMAIN packages

\* C10 as stated: in every interleaving a job item is never removed at a
\* moment when its stored status is "inProgress".
C10_NeverRemovedInProgress ==
    (last.op = "removeJobItem" /\ last.outcome.kind = "ok"
        /\ last.arg.val \in DOMAIN last.preJobItems)
    => last.preJobItems[last.arg.val].status # "inProgress"

\* C10: in every interleaving a job item is removed only by an invocation whose
\* own read of the status returned a status other than "inProgress".
C10_RemovedOnlyAfterPassingRead ==
    [][\A f \in DOMAIN fibers :
           (fibers[f].pc = "remove" /\ fibers'[f].pc = "idle") =>
               /\ fibers[f].status # "inProgress"
               /\ fibers[f].status \in {"pending", "completed", "failed"}
               /\ fibers[f].jobItemId.val \notin DOMAIN jobItems']_vars

\* a removal that happened while the stored status was "inProgress"
C10_Witness ==
    /\ last.op = "removeJobItem"
    /\ last.outcome.kind = "ok"
    /\ last.arg.val \in DOMAIN last.preJobItems
    /\ last.preJobItems[last.arg.val].status = "inProgress"
    /\ last.arg.val \notin DOMAIN jobItems

\* C11: after any sequence of saveJobItem and removeJobItem invocations, also
\* interleaved ones, every stored job item carries the mapping that the
\* saveJobItem which inserted it was given: a job item appears only by the
\* insert of a submission, with the submitted mapping, and no later step (an
\* update of the template it references included) changes the mapping or the
\* mappingId of a stored job item, nor its status, which only the pipeline
\* changes.
C11_JobItemsKeepSubmittedMapping ==
    [][/\ \A id \in DOMAIN jobItems' \ DOMAIN jobItems :
              /\ last'.op \in {"JobItems.insert", "saveJobItem"}
              /\ jobItems'[id].mapping = Get(last'.arg, "mappingByUser")
              /\ jobItems'[id].mappingId = Get(last'.arg, "mappingId")
              /\ jobItems'[id].status = "pending"
       /\ \A id \in DOMAIN jobItems \cap DOMAIN jobItems' :
              /\ jobItems'[id].mapping = jobItems[id].mapping
              /\ jobItems'[id].mappingId = jobItems[id].mappingId
              /\ last'.op # "pipeline" => jobItems'[id].status = jobItems[id].status]_vars

\* a submission has just updated a template while another submission was in
\* flight, and a stored job item of an earlier submission references that
\* template with a mapping and a status of its own
C11_Witness ==
    /\ last.op = "saveJobItem"
    /\ last.outcome.kind = "ok"
    /\ Get(last.arg, "saveMappingAction") = "update"
    /\ mappings # last.preMappings
    /\ \E f \in DOMAIN fibers :
           fibers[f].pc = "mapping" /\ Get(fibers[f].values, "saveMappingAction") = "update"
    /\ \E id \in DOMAIN jobItems \ {last.outcome.value} :
           /\ jobItems[id].mappingId \in DOMAIN mappings
           /\ jobItems[id].mapping # mappings[jobItems[id].mappingId].mapping
           /\ jobItems[id].status # "pending"
====
